---- MODULE Spec2Model ----
(***************************************************************************)
(* Sump pump monitor of drmem (src/src/main.rs): the duty-cycle state      *)
(* machine `State`, the reconnecting `monitor` loop, the redis history     *)
(* streams it appends to and the channel to the hue lighting task.         *)
(***************************************************************************)
EXTENDS Integers, Sequences, FiniteSets, TLC

(* ------------------------------ bounds -------------------------------- *)
\* frame timestamps range over 0..MaxStamp
MaxStamp == 2
\* u64 arithmetic is modelled on WordBits-bit words (wrap-around % 2^WordBits)
WordBits == 4
\* frames received over the whole run
MaxFrames == 3
\* connection attempts to the pump process over the whole run
MaxConnects == 2
\* capacity of the bounded mpsc channel to the hue task
ChanCap == 1
\* granularity of the passage of time, in milliseconds
TickMs == 10000

(* ----------------------- program constants ---------------------------- *)
\* delay_for(Duration::from_millis(10_000))
DelayMs == 10000
\* pump capacity in gallons per hour
PumpGph == 2680

Word == 2 ^ WordBits
Stamps == 0 .. MaxStamp

VARIABLES
    pc,              \* position of main/monitor
    state,           \* monitor's `state : State`
    frame,           \* locals of the frame being handled: stamp, duty, in_flow
    chan,            \* programs queued in the mpsc channel to the hue task
    stateHist,       \* stream sump:state.hist
    dutyHist,        \* stream sump:duty.hist
    inflowHist,      \* stream sump:in-flow.hist
    serviceHist,     \* stream sump:service.hist
    overflow_checks, \* whether the build traps integer overflow
    remaining,       \* milliseconds left of the running delay_for
    sess,            \* history: frames received and appends submitted this session
    hist,            \* history: counts of faults, alerts and events over the run
    call             \* the last direct call of to_off / to_on and its outcome

vars == <<pc, state, frame, chan, stateHist, dutyHist, inflowHist,
          serviceHist, overflow_checks, remaining, sess, hist, call>>

(* ------------------------- enum State --------------------------------- *)
Unknown == [tag |-> "Unknown", off_time |-> 0, on_time |-> 0]
Off(t) == [tag |-> "Off", off_time |-> t, on_time |-> 0]
On(t, u) == [tag |-> "On", off_time |-> t, on_time |-> u]

States == {Unknown} \cup {Off(t) : t \in Stamps}
              \cup {On(t, u) : t \in Stamps, u \in Stamps}

(* ------------------------- f64 values --------------------------------- *)
\* A float is a finite number, +infinity or NaN.  duty is held in units of
\* one percent, in_flow in hundredths of a gallon per minute.
Num(n) == [kind |-> "num", val |-> n]
Inf == [kind |-> "inf", val |-> 0]
NaN == [kind |-> "nan", val |-> 0]

\* f64::round of the non-negative quotient a / b: nearest integer, halves
\* away from zero
RoundDiv(a, b) == (2 * a + b) \div (2 * b)

\* `stamp - t` on u64
SubU64(stamp, t) == (stamp - t + Word) % Word

\* the subtraction overflows
Underflow(stamp, t) == stamp < t

\* (on_time * 100.0 / off_time).round() where on_time = a / 1000.0 and
\* off_time = b / 1000.0: 0.0 / 0.0 is NaN, x / 0.0 is +infinity; the
\* quotient is taken exactly, without the rounding error of the f64
\* operations
Duty(a, b) ==
    IF b = 0 THEN (IF a = 0 THEN NaN ELSE Inf)
    ELSE Num(RoundDiv(100 * a, b))

\* mutant of InFlow: scaled by 100 before rounding
InFlowScaledFirst(duty) ==
    IF duty.kind = "num" THEN Num(RoundDiv(PumpGph * duty.val * 100, 60))
    ELSE duty

\* (2680.0 * duty / 60.0).round() / 100.0, in hundredths
InFlow(duty) ==
    IF duty.kind = "num" THEN Num(RoundDiv(PumpGph * duty.val, 60))
    ELSE duty

\* State::to_off: the new state, the returned Option and whether the call
\* panicked
ToOff(s, stamp, checks) ==
    CASE s.tag = "Unknown" ->
           [state |-> Off(stamp), some |-> FALSE, duty |-> NaN,
            in_flow |-> NaN, panic |-> FALSE]
      [] s.tag = "Off" ->
           [state |-> s, some |-> FALSE, duty |-> NaN,
            in_flow |-> NaN, panic |-> FALSE]
      [] s.tag = "On" ->
           IF checks /\ (Underflow(stamp, s.on_time)
                           \/ Underflow(stamp, s.off_time))
           THEN [state |-> s, some |-> FALSE, duty |-> NaN,
                 in_flow |-> NaN, panic |-> TRUE]
           ELSE LET duty == Duty(SubU64(stamp, s.on_time),
                                 SubU64(stamp, s.off_time))
                IN [state |-> Off(stamp), some |-> TRUE, duty |-> duty,
                    in_flow |-> InFlow(duty), panic |-> FALSE]

\* mutant of ToOn: a duplicate ON event restarts on_time
ToOnRestamps(s, stamp) ==
    CASE s.tag = "Unknown" -> [state |-> s, ret |-> FALSE]
      [] s.tag = "Off" -> [state |-> On(s.off_time, stamp), ret |-> TRUE]
      [] s.tag = "On" -> [state |-> On(s.off_time, stamp), ret |-> FALSE]

\* mutant of ToOn: an ON event in Unknown starts a cycle
ToOnFromUnknown(s, stamp) ==
    CASE s.tag = "Unknown" -> [state |-> On(stamp, stamp), ret |-> TRUE]
      [] s.tag = "Off" -> [state |-> On(s.off_time, stamp), ret |-> TRUE]
      [] s.tag = "On" -> [state |-> s, ret |-> FALSE]

\* mutant of ToOn: the two timestamps of On are stored the wrong way round
ToOnSwapped(s, stamp) ==
    CASE s.tag = "Unknown" -> [state |-> s, ret |-> FALSE]
      [] s.tag = "Off" -> [state |-> On(stamp, s.off_time), ret |-> TRUE]
      [] s.tag = "On" -> [state |-> s, ret |-> FALSE]

\* State::to_on: the new state and the returned bool
ToOn(s, stamp) ==
    CASE s.tag = "Unknown" -> [state |-> s, ret |-> FALSE]
      [] s.tag = "Off" -> [state |-> On(s.off_time, stamp), ret |-> TRUE]
      [] s.tag = "On" -> [state |-> s, ret |-> FALSE]


(* --------------------- hue programs and the channel -------------------- *)
\* a float compares below n (a NaN compares below nothing)
Lt(f, n) == f.kind = "num" /\ f.val < n

\* mutant of LampOffProg: a duty of exactly 10 still turns the lights off
LampOffProgLe(duty) ==
    IF Lt(duty, 11) THEN "lights_off"
    ELSE IF Lt(duty, 30) THEN "yellow" ELSE "red"

\* the program lamp_off builds for a duty
LampOffProg(duty) ==
    IF Lt(duty, 10) THEN "lights_off"
    ELSE IF Lt(duty, 30) THEN "yellow" ELSE "red"

\* tx.send(prog).await on the bounded channel: completes once there is room
CanSend == Len(chan) < ChanCap

(* ------------------------- redis streams ------------------------------ *)
Rec(id, value) == [id |-> id, value |-> value]

\* mutant of PipeApplied: a plain pipeline, which a failure cuts short
PipeAppliedPrefix(n) == 0 .. n

\* how many of the n commands of an atomic pipeline (MULTI/EXEC) the store
\* may apply: all of them, or none on a failure
PipeApplied(n) == {0, n}

\* appends as submitted to the store: a single XADD of state=on, or the
\* three XADDs of the OFF pipeline
OnCmd(stamp) ==
    [kind |-> "on", id |-> stamp, duty |-> NaN, in_flow |-> NaN]
BatchCmd(stamp, duty, in_flow) ==
    [kind |-> "batch", id |-> stamp, duty |-> duty, in_flow |-> in_flow]

NoFrame == [stamp |-> 0, duty |-> NaN, in_flow |-> NaN]
NoCall == [op |-> "none", pre |-> Unknown, stamp |-> 0, post |-> Unknown,
           ret |-> FALSE, duty |-> NaN, in_flow |-> NaN, panic |-> FALSE]
\* the session's history: the frames received, the appends submitted, and
\* the lengths of the three telemetry streams when the session began
SessAt(base) == [frames |-> <<>>, cmds |-> <<>>, base |-> base]
NoSess == SessAt(<<0, 0, 0>>)
NoHist == [frames |-> 0, connects |-> 0, readFail |-> 0, connFail |-> 0,
           crashAlert |-> 0, downAlert |-> 0, sinceFault |-> DelayMs,
           fault |-> "none", tel |-> <<0, 0, 0>>]

(* ------------------------------ Init ----------------------------------- *)
Init ==
    /\ pc = "main_send"
    /\ state = Unknown
    /\ frame = NoFrame
    /\ chan = <<>>
    /\ stateHist = <<>>
    /\ dutyHist = <<>>
    /\ inflowHist = <<>>
    /\ serviceHist = <<>>
    /\ overflow_checks \in BOOLEAN
    /\ remaining = 0
    /\ sess = NoSess
    /\ hist = NoHist
    /\ call = NoCall

store == <<stateHist, dutyHist, inflowHist, serviceHist>>
telemetry == <<stateHist, dutyHist, inflowHist>>
TelLens == <<Len(stateHist), Len(dutyHist), Len(inflowHist)>>

(* ------------------------------ main ----------------------------------- *)
\* main: tx.send(prog).await, then monitor(&cfg, tx)
MainSend ==
    /\ pc = "main_send"
    /\ CanSend
    /\ chan' = Append(chan, "startup")
    /\ pc' = "mk_conn"
    /\ UNCHANGED <<state, frame, store, overflow_checks, remaining, sess,
                   hist, call>>

\* monitor: let mut con = mk_redis_conn(cfg).await?
MkRedisConn ==
    /\ pc = "mk_conn"
    /\ \/ pc' = "connect"
       \/ pc' = "no_store"
    /\ state' = Unknown
    /\ UNCHANGED <<frame, chan, store, overflow_checks, remaining, sess,
                   hist, call>>

(* ---------------------------- monitor loop ----------------------------- *)
\* TcpStream::connect(addr).await
Connect ==
    /\ pc = "connect"
    /\ hist.connects < MaxConnects
    /\ \/ /\ pc' = "up_svc"
          /\ hist' = [hist EXCEPT !.connects = @ + 1,
                                  !.sinceFault = DelayMs, !.fault = "none"]
       \/ /\ pc' = "down_svc"
          /\ hist' = [hist EXCEPT !.connects = @ + 1, !.connFail = @ + 1,
                                  !.sinceFault = 0, !.fault = "down",
                                  !.tel = TelLens]
    /\ UNCHANGED <<state, frame, chan, store, overflow_checks, remaining,
                   sess, call>>

\* set_service_state(&mut con, value).await?  from position `at`: the
\* append is applied and the monitor goes on to `next`, or it fails and
\* the error is returned from monitor
SetServiceState(at, value, next) ==
    /\ pc = at
    /\ \/ /\ serviceHist' = Append(serviceHist, Rec("*", value))
          /\ pc' = next
       \/ /\ serviceHist' = serviceHist
          /\ pc' = "returned"
    /\ UNCHANGED <<state, frame, chan, telemetry, overflow_checks,
                   remaining, hist, call>>

UpSvc ==
    /\ SetServiceState("up_svc", "up", "read")
    /\ sess' = SessAt(TelLens)

\* mutant of OnNext: every ON frame is reported as a transition
OnNextAlways(r) == "on_send"

\* `if state.to_on(stamp) { .. }`: where the ON arm goes next
OnNext(r) == IF r.ret THEN "on_send" ELSE "read"

\* mutant of OffNext: the synchronising OFF is reported like a cycle
OffNextAlways(r) == IF r.panic THEN "panicked" ELSE "off_send"

\* `if let Some((duty, in_flow)) = state.to_off(stamp) { .. }`: where the
\* OFF arm goes next
OffNext(r) ==
    IF r.panic THEN "panicked" ELSE IF r.some THEN "off_send" ELSE "read"

\* get_reading returns Ok((stamp, true))
ReadOn ==
    /\ pc = "read"
    /\ hist.frames < MaxFrames
    /\ \E stamp \in Stamps :
         LET r == ToOn(state, stamp) IN
           /\ state' = r.state
           /\ sess' = [sess EXCEPT
                         !.frames = Append(@, [stamp |-> stamp, on |-> TRUE])]
           /\ pc' = OnNext(r)
           /\ frame' = IF pc' = "on_send"
                       THEN [NoFrame EXCEPT !.stamp = stamp]
                       ELSE NoFrame
    /\ hist' = [hist EXCEPT !.frames = @ + 1]
    /\ UNCHANGED <<chan, store, overflow_checks, remaining, call>>

\* tx.send(sump_on).await
OnSend ==
    /\ pc = "on_send"
    /\ CanSend
    /\ chan' = Append(chan, "sump_on")
    /\ pc' = "on_xadd"
    /\ UNCHANGED <<state, frame, store, overflow_checks, remaining, sess,
                   hist, call>>

\* redis::Cmd::xadd("sump:state.hist", stamp, [("value", "on")])
\*     .query_async(&mut con).await?
OnXadd ==
    /\ pc = "on_xadd"
    /\ sess' = [sess EXCEPT !.cmds = Append(@, OnCmd(frame.stamp))]
    /\ \/ /\ stateHist' = Append(stateHist, Rec(frame.stamp, "on"))
          /\ pc' = "read"
       \/ /\ stateHist' = stateHist
          /\ pc' = "returned"
    /\ frame' = NoFrame
    /\ UNCHANGED <<state, chan, dutyHist, inflowHist, serviceHist,
                   overflow_checks, remaining, hist, call>>

\* get_reading returns Ok((stamp, false))
ReadOff ==
    /\ pc = "read"
    /\ hist.frames < MaxFrames
    /\ \E stamp \in Stamps :
         LET r == ToOff(state, stamp, overflow_checks) IN
           /\ state' = r.state
           /\ sess' = [sess EXCEPT
                         !.frames = Append(@, [stamp |-> stamp, on |-> FALSE])]
           /\ pc' = OffNext(r)
           /\ frame' = IF pc' = "off_send"
                       THEN [stamp |-> stamp, duty |-> r.duty,
                             in_flow |-> r.in_flow]
                       ELSE NoFrame
    /\ hist' = [hist EXCEPT !.frames = @ + 1]
    /\ UNCHANGED <<chan, store, overflow_checks, remaining, call>>

\* lamp_off(&mut tx, duty).await
OffSend ==
    /\ pc = "off_send"
    /\ CanSend
    /\ chan' = Append(chan, LampOffProg(frame.duty))
    /\ pc' = "off_pipe"
    /\ UNCHANGED <<state, frame, store, overflow_checks, remaining, sess,
                   hist, call>>

\* redis::pipe().atomic() XADD state.hist, XADD duty.hist, XADD in-flow.hist
\*     .query_async(&mut con).await?
OffPipe ==
    /\ pc = "off_pipe"
    /\ sess' = [sess EXCEPT
                  !.cmds = Append(@, BatchCmd(frame.stamp, frame.duty,
                                              frame.in_flow))]
    /\ \E k \in PipeApplied(3) :
         /\ stateHist' = IF k >= 1
                         THEN Append(stateHist, Rec(frame.stamp, "off"))
                         ELSE stateHist
         /\ dutyHist' = IF k >= 2
                        THEN Append(dutyHist, Rec(frame.stamp, frame.duty))
                        ELSE dutyHist
         /\ inflowHist' = IF k >= 3
                          THEN Append(inflowHist,
                                      Rec(frame.stamp, frame.in_flow))
                          ELSE inflowHist
         /\ pc' = IF k = 3 THEN "read" ELSE "returned"
    /\ frame' = NoFrame
    /\ UNCHANGED <<state, chan, serviceHist, overflow_checks, remaining,
                   hist, call>>

\* get_reading returns Err(e)
ReadErr ==
    /\ pc = "read"
    /\ pc' = "crash_svc"
    /\ hist' = [hist EXCEPT !.readFail = @ + 1, !.sinceFault = 0,
                            !.fault = "crash"]
    /\ UNCHANGED <<state, frame, chan, store, overflow_checks, remaining,
                   sess, call>>

\* mutant of CrashSvc: the read failure is recorded as "down"
CrashSvcDown ==
    /\ SetServiceState("crash_svc", "down", "crash_alert")
    /\ sess' = sess

CrashSvc ==
    /\ SetServiceState("crash_svc", "crash", "crash_alert")
    /\ sess' = sess

\* lamp_alert(&mut tx).await at position `at`, then on to the delay_for at
\* the bottom of the loop
LampAlert(at) ==
    /\ pc = at
    /\ CanSend
    /\ chan' = Append(chan, "alert")
    /\ pc' = "delay"
    /\ remaining' = DelayMs
    /\ UNCHANGED <<state, frame, store, overflow_checks, sess, call>>

CrashAlert ==
    /\ LampAlert("crash_alert")
    /\ hist' = [hist EXCEPT !.crashAlert = @ + 1]

DownSvc ==
    /\ SetServiceState("down_svc", "down", "down_alert")
    /\ sess' = sess

DownAlert ==
    /\ LampAlert("down_alert")
    /\ hist' = [hist EXCEPT !.downAlert = @ + 1]

\* mutant of DelayDone: the state machine survives the reconnect
DelayDoneKeepsState ==
    /\ pc = "delay"
    /\ remaining = 0
    /\ pc' = "connect"
    /\ UNCHANGED <<state, frame, chan, store, overflow_checks, remaining, sess,
                   hist, call>>

\* delay_for(Duration::from_millis(10_000)).await has elapsed; the loop
\* starts over with `let mut state = State::Unknown`
DelayDone ==
    /\ pc = "delay"
    /\ remaining = 0
    /\ pc' = "connect"
    /\ state' = Unknown
    /\ UNCHANGED <<frame, chan, store, overflow_checks, remaining, sess,
                   hist, call>>

\* time passes
Tick ==
    /\ remaining > 0 \/ hist.sinceFault < DelayMs
    /\ remaining' = IF remaining > TickMs THEN remaining - TickMs ELSE 0
    /\ hist' = [hist EXCEPT !.sinceFault =
                  IF @ + TickMs < DelayMs THEN @ + TickMs ELSE DelayMs]
    /\ UNCHANGED <<pc, state, frame, chan, store, overflow_checks, sess,
                   call>>

\* the hue task takes the next program off the channel
HueRecv ==
    /\ chan # <<>>
    /\ chan' = Tail(chan)
    /\ UNCHANGED <<pc, state, frame, store, overflow_checks, remaining,
                   sess, hist, call>>

Next ==
    \/ MainSend \/ MkRedisConn \/ Connect \/ UpSvc
    \/ ReadOn \/ OnSend \/ OnXadd
    \/ ReadOff \/ OffSend \/ OffPipe
    \/ ReadErr \/ CrashSvc \/ CrashAlert
    \/ DownSvc \/ DownAlert
    \/ DelayDone \/ Tick \/ HueRecv

Spec == Init /\ [][Next]_vars


(* -------- to_off and to_on called directly on any State value ---------- *)
InitFn ==
    /\ pc = "fn"
    /\ state \in States
    /\ frame = NoFrame
    /\ chan = <<>>
    /\ stateHist = <<>>
    /\ dutyHist = <<>>
    /\ inflowHist = <<>>
    /\ serviceHist = <<>>
    /\ overflow_checks \in BOOLEAN
    /\ remaining = 0
    /\ sess = NoSess
    /\ hist = NoHist
    /\ call = NoCall

\* state.to_off(stamp)
CallToOff ==
    /\ pc = "fn"
    /\ \E stamp \in Stamps :
         LET r == ToOff(state, stamp, overflow_checks) IN
           /\ state' = r.state
           /\ call' = [op |-> "to_off", pre |-> state, stamp |-> stamp,
                       post |-> r.state, ret |-> r.some, duty |-> r.duty,
                       in_flow |-> r.in_flow, panic |-> r.panic]
    /\ UNCHANGED <<pc, frame, chan, store, overflow_checks, remaining, sess,
                   hist>>

\* state.to_on(stamp)
CallToOn ==
    /\ pc = "fn"
    /\ \E stamp \in Stamps :
         LET r == ToOn(state, stamp) IN
           /\ state' = r.state
           /\ call' = [op |-> "to_on", pre |-> state, stamp |-> stamp,
                       post |-> r.state, ret |-> r.ret, duty |-> NaN,
                       in_flow |-> NaN, panic |-> FALSE]
    /\ UNCHANGED <<pc, frame, chan, store, overflow_checks, remaining, sess,
                   hist>>

NextFn == CallToOff \/ CallToOn

SpecFn == InitFn /\ [][NextFn]_vars


(* ======================= properties of State =========================== *)

\* C8: to_off(stamp) follows its table for every state and stamp: Unknown
\* becomes Off{stamp} and None is returned; Off{..} is left unchanged and
\* None is returned; On{..} becomes Off{stamp} and a DutyResult is
\* returned; so a DutyResult is returned iff the state before was On.
C8_ToOffTable ==
    call.op = "to_off" =>
      /\ call.pre.tag = "Unknown" => call.post = Off(call.stamp) /\ ~call.ret
      /\ call.pre.tag = "Off" => call.post = call.pre /\ ~call.ret
      /\ call.pre.tag = "On" => call.post = Off(call.stamp) /\ call.ret
      /\ call.ret <=> call.pre.tag = "On"
      /\ ~call.panic
      /\ state = call.post

\* C9: to_on(stamp) follows its table for every state and stamp: Unknown
\* stays Unknown and false is returned; Off{off_time} becomes
\* On{off_time, on_time = stamp} and true is returned; On{..} is left
\* unchanged and false is returned; so true is returned iff the state
\* before was Off.
C9_ToOnTable ==
    call.op = "to_on" =>
      /\ call.pre.tag = "Unknown" => call.post = Unknown /\ ~call.ret
      /\ call.pre.tag = "Off" =>
           call.post = On(call.pre.off_time, call.stamp) /\ call.ret
      /\ call.pre.tag = "On" => call.post = call.pre /\ ~call.ret
      /\ call.ret <=> call.pre.tag = "Off"
      /\ state = call.post

\* a duplicate ON: to_on has been called on an On state with a stamp other
\* than its on_time, and the state is as before
C9_Witness ==
    /\ call.op = "to_on"
    /\ call.pre.tag = "On"
    /\ call.stamp # call.pre.on_time
    /\ state = call.pre

\* C10 as stated: inflow_gpm = round((2680 * duty / 60) * 100) / 100
C10_ScaledBeforeRounding ==
    (call.op = "to_off" /\ call.ret /\ call.duty.kind = "num") =>
      /\ call.in_flow.kind = "num"
      /\ call.in_flow.val = RoundDiv(PumpGph * call.duty.val * 100, 60)

\* C10, amended: inflow_gpm = round(2680 * duty / 60) / 100, that is the
\* multiple of 0.01 nearest to 2680 * (duty / 100) / 60; a duty that is not
\* a finite number gives the same in_flow.
C10_InFlowRounded ==
    (call.op = "to_off" /\ call.ret) =>
      IF call.duty.kind = "num"
      THEN /\ call.in_flow.kind = "num"
           /\ 60 * call.in_flow.val - PumpGph * call.duty.val \in -30 .. 30
      ELSE call.in_flow = call.duty

\* On{0, 1}.to_off(2): duty 50, in_flow 22.33
C10_Witness ==
    /\ call.op = "to_off"
    /\ call.ret
    /\ call.duty = Num(50)
    /\ call.in_flow = Num(2233)


(* ===================== properties of the monitor ======================= *)

\* positions of monitor where the append of the current frame is pending
MidFrame == {"on_send", "on_xadd", "off_send", "off_pipe"}

\* the appends a session owes for its frames: the state machine is run
\* from Unknown; an ON frame that to_on reports as a transition gives one
\* state=on append, an OFF frame for which to_off returns a result gives
\* one batch, any other frame gives nothing
RECURSIVE Replay(_, _, _)
Replay(frames, i, s) ==
    IF i > Len(frames) THEN <<>>
    ELSE LET f == frames[i] IN
         IF f.on
         THEN LET r == ToOn(s, f.stamp) IN
              (IF r.ret THEN <<OnCmd(f.stamp)>> ELSE <<>>)
                 \o Replay(frames, i + 1, r.state)
         ELSE LET r == ToOff(s, f.stamp, overflow_checks) IN
              IF r.panic THEN <<>>
              ELSE (IF r.some
                    THEN <<BatchCmd(f.stamp, r.duty, r.in_flow)>>
                    ELSE <<>>)
                      \o Replay(frames, i + 1, r.state)

Owed(frames) == Replay(frames, 1, Unknown)

\* the records the store holds once it has applied the appends cmds
RECURSIVE Applied(_, _)
Applied(cmds, i) ==
    IF i > Len(cmds) THEN <<<<>>, <<>>, <<>>>>
    ELSE LET c == cmds[i]
             rest == Applied(cmds, i + 1)
         IN IF c.kind = "on"
            THEN <<(<<Rec(c.id, "on")>>) \o rest[1], rest[2], rest[3]>>
            ELSE <<(<<Rec(c.id, "off")>>) \o rest[1],
                   (<<Rec(c.id, c.duty)>>) \o rest[2],
                   (<<Rec(c.id, c.in_flow)>>) \o rest[3]>>

\* what the three telemetry streams have gained since the session began
Since(h, n) == SubSeq(h, n + 1, Len(h))
Gained == <<Since(stateHist, sess.base[1]), Since(dutyHist, sess.base[2]),
            Since(inflowHist, sess.base[3])>>

Front(q) == SubSeq(q, 1, Len(q) - 1)

\* C1: the telemetry written for the frames of a session is exactly one
\* state=on record per ON frame that to_on reports as a transition and one
\* three-record batch per OFF frame for which to_off returns a result,
\* each stamped with its frame's timestamp, and nothing for any other
\* frame (while a frame's append is still pending, the appends of the
\* frames before it); the store holds exactly these records, less the last
\* one if the store refused it.  The stream OFF@t0, ON@t1, OFF@t2 yields
\* one state=on at t1 and one batch at t2, nothing for OFF@t0.
C1_TelemetryExact ==
    /\ pc \notin MidFrame => sess.cmds = Owed(sess.frames)
    /\ pc \in MidFrame => sess.cmds = Front(Owed(sess.frames))
    /\ pc # "returned" => Gained = Applied(sess.cmds, 1)
    /\ pc = "returned" =>
         \/ Gained = Applied(sess.cmds, 1)
         \/ Gained = Applied(Front(sess.cmds), 1)
    /\ LET f == sess.frames IN
         (/\ pc \notin MidFrame
          /\ Len(f) = 3
          /\ ~f[1].on /\ f[2].on /\ ~f[3].on
          /\ f[1].stamp <= f[2].stamp /\ f[2].stamp <= f[3].stamp)
         => /\ Len(sess.cmds) = 2
            /\ sess.cmds[1] = OnCmd(f[2].stamp)
            /\ sess.cmds[2].kind = "batch"
            /\ sess.cmds[2].id = f[3].stamp

\* the stream OFF@0, ON@1, OFF@2 has been handled and its appends applied
C1_Witness ==
    /\ pc = "read"
    /\ sess.frames = <<[stamp |-> 0, on |-> FALSE],
                       [stamp |-> 1, on |-> TRUE],
                       [stamp |-> 2, on |-> FALSE]>>
    /\ stateHist = <<Rec(1, "on"), Rec(2, "off")>>
    /\ Len(dutyHist) = 1
    /\ Len(inflowHist) = 1

AppendFails ==
    /\ pc \in {"up_svc", "on_xadd", "off_pipe", "crash_svc", "down_svc"}
    /\ pc' # pc
    /\ store' = store

\* C3: when an append to the store fails, the session is aborted and the
\* monitor goes on to a new reconnect cycle (the delay, then Connecting)
\* rather than stopping.
C3_AppendFailureReconnects ==
    [][AppendFails => pc' = "delay"]_vars

\* C4: the monitor loop has no terminal state: once in the loop, monitor
\* never returns and never dies.
C4_NoTerminalState ==
    pc \notin {"returned", "panicked"}

Count(h, value) == Len(SelectSeq(h, LAMBDA r : r.value = value))

\* C5: a frame-read failure produces exactly one service="crash" record and
\* exactly one alert, ends the session (back to Disconnected), and the next
\* connection attempt comes no sooner than the fixed delay after it.
C5_ReadFailure ==
    /\ pc \notin {"crash_svc", "crash_alert"} =>
         /\ Count(serviceHist, "crash") = hist.readFail
         /\ hist.crashAlert = hist.readFail
    /\ hist.fault = "crash" =>
         /\ pc \in {"crash_svc", "crash_alert", "delay", "connect"}
         /\ pc = "connect" => hist.sinceFault >= DelayMs

\* C6: every failed connection attempt records exactly one service="down"
\* entry and pushes exactly one alert, writes no state, duty or in-flow
\* record, and returns to Disconnected (the delay, then the next attempt).
C6_ConnectFailure ==
    /\ pc \notin {"down_svc", "down_alert"} =>
         /\ Count(serviceHist, "down") = hist.connFail
         /\ hist.downAlert = hist.connFail
    /\ hist.fault = "down" =>
         /\ pc \in {"down_svc", "down_alert", "delay", "connect"}
         /\ TelLens = hist.tel
         /\ pc = "connect" => hist.sinceFault >= DelayMs

\* C7: a hue task that is slow or has stopped taking programs off its
\* channel cannot block telemetry: whenever a state=on record or an OFF
\* batch is due, monitor can go on to submit it, however many programs are
\* still in the channel.
C7_NeverBlocked ==
    /\ pc = "on_send" => ENABLED OnSend
    /\ pc = "off_send" => ENABLED OffSend


(* ==================== duty cycle, ordered timestamps =================== *)

\* C11: with non-decreasing timestamps (off_time <= on_time <= stamp),
\* every DutyResult returned by to_off from On{off_time, on_time} has
\* duty_percent = round((stamp - on_time) * 100 / (stamp - off_time)), a
\* well-defined percentage in 0..100, also when some or all of off_time,
\* on_time and stamp are equal.
C11_DutyIsPercentage ==
    (/\ call.op = "to_off"
     /\ call.pre.tag = "On"
     /\ call.pre.off_time <= call.pre.on_time
     /\ call.pre.on_time <= call.stamp)
    => /\ call.ret
       /\ call.duty.kind = "num"
       /\ call.duty.val \in 0 .. 100
       /\ call.duty.val = RoundDiv((call.stamp - call.pre.on_time) * 100,
                                   call.stamp - call.pre.off_time)


(* ========================= device/data.rs ============================== *)

\* Bounds of the codec inputs: decoded buffers are a tag byte followed by up
\* to MaxPayload bytes, encoded strings have up to MaxStr bytes, and the
\* encoded integers include k * m for |k| <= IntSpan.
MaxPayload == 8
MaxStr == 2
IntSpan == 2

\* The tag bytes 'F', 'T', 'I', 'D', 'S' of the wire format.
TagF == 70
TagT == 84
TagI == 73
TagD == 68
TagS == 83

\* A 64-bit word (the bits of an i64 in two's complement, or of an f64) is
\* kept as four 16-bit limbs, most significant first.
Limb == 65536

\* The i64 of a small integer n, in two's complement.
I64(n) ==
    IF n >= 0
    THEN <<0, 0, n \div Limb, n % Limb>>
    ELSE <<Limb - 1, Limb - 1,
           Limb - 1 - ((-n - 1) \div Limb), Limb - 1 - ((-n - 1) % Limb)>>

I64Max == <<32767, 65535, 65535, 65535>>
I64Min == <<32768, 0, 0, 0>>

\* to_be_bytes in little-endian order (to_le_bytes).
ToLeBytes(w) ==
    <<w[4] % 256, w[4] \div 256, w[3] % 256, w[3] \div 256,
      w[2] % 256, w[2] \div 256, w[1] % 256, w[1] \div 256>>

\* i64::to_be_bytes / f64::to_be_bytes
ToBeBytes(w) ==
    <<w[1] \div 256, w[1] % 256, w[2] \div 256, w[2] % 256,
      w[3] \div 256, w[3] % 256, w[4] \div 256, w[4] % 256>>

\* i64::from_be_bytes / f64::from_be_bytes of the first 8 bytes of b
FromBeBytes(b) ==
    <<b[1] * 256 + b[2], b[3] * 256 + b[4],
      b[5] * 256 + b[6], b[7] * 256 + b[8]>>

\* (n as u32).to_be_bytes()
U32ToBeBytes(n) ==
    <<(n \div 16777216) % 256, (n \div 65536) % 256, (n \div 256) % 256,
      n % 256>>

\* enum Type.  The payload v is a sequence of numbers in every variant:
\* empty for Nil, <<0>> or <<1>> for Bool, the limbs of the word for Int and
\* Flt, the UTF-8 bytes for Str.
TypeNil == [t |-> "Nil", v |-> <<>>]
TypeBool(b) == [t |-> "Bool", v |-> IF b THEN <<1>> ELSE <<0>>]
TypeInt(w) == [t |-> "Int", v |-> w]
TypeFlt(w) == [t |-> "Flt", v |-> w]
TypeStr(s) == [t |-> "Str", v |-> s]

\* f64: a NaN has all exponent bits set and a non-zero mantissa; a zero has
\* every bit but the sign clear.
IsNaN(w) ==
    /\ (w[1] % 32768) \div 16 = 2047
    /\ (w[1] % 16 # 0 \/ w[2] # 0 \/ w[3] # 0 \/ w[4] # 0)

IsZero(w) == w[1] % 32768 = 0 /\ w[2] = 0 /\ w[3] = 0 /\ w[4] = 0

\* f64's ==
F64Eq(x, y) == ~IsNaN(x) /\ ~IsNaN(y) /\ (x = y \/ (IsZero(x) /\ IsZero(y)))

\* #[derive(PartialEq)] of Type
TypeEq(a, b) ==
    /\ a.t = b.t
    /\ IF a.t = "Flt" THEN F64Eq(a.v, b.v) ELSE a.v = b.v

\* Result<Type>: Ok(val), Err((ErrorKind::TypeError, err)), or a panic.
Ok(val) == [ok |-> TRUE, val |-> val, err |-> "", panic |-> FALSE]
Err(msg) == [ok |-> FALSE, val |-> TypeNil, err |-> msg, panic |-> FALSE]
Panicked(msg) == [ok |-> FALSE, val |-> TypeNil, err |-> msg, panic |-> TRUE]

\* String::from_utf8: is b[i..] well-formed UTF-8?
Cont(c) == c \in 128 .. 191

RECURSIVE Utf8From(_, _)
Utf8From(b, i) ==
    IF i > Len(b) THEN TRUE
    ELSE LET c == b[i]
             At(j) == IF j <= Len(b) THEN b[j] ELSE 0
         IN  IF c <= 127 THEN Utf8From(b, i + 1)
             ELSE IF c \in 194 .. 223
             THEN Cont(At(i + 1)) /\ Utf8From(b, i + 2)
             ELSE IF c \in 224 .. 239
             THEN /\ At(i + 1) \in (IF c = 224 THEN 160 .. 191
                                    ELSE IF c = 237 THEN 128 .. 159
                                    ELSE 128 .. 191)
                  /\ Cont(At(i + 2))
                  /\ Utf8From(b, i + 3)
             ELSE IF c \in 240 .. 244
             THEN /\ At(i + 1) \in (IF c = 240 THEN 144 .. 191
                                    ELSE IF c = 244 THEN 128 .. 143
                                    ELSE 128 .. 191)
                  /\ Cont(At(i + 2))
                  /\ Cont(At(i + 3))
                  /\ Utf8From(b, i + 4)
             ELSE FALSE

FromUtf8(b) == Utf8From(b, 1)

\* decode_integer(buf)
DecodeInteger(buf) ==
    IF Len(buf) >= 8
    THEN Ok(TypeInt(FromBeBytes(buf)))
    ELSE Err("integer data too short")

\* decode_float(buf)
DecodeFloat(buf) ==
    IF Len(buf) >= 8
    THEN Ok(TypeFlt(FromBeBytes(buf)))
    ELSE Err("floating point data too short")

\* decode_string(buf).  len = u32::from_be_bytes(buf[..4]) as usize is kept
\* as its two 16-bit halves.  Every modelled buffer is shorter than 2^16
\* bytes, so buf.len() >= 4 + len needs the upper half to be 0.  Where usize
\* has 32 bits, 4 + len overflows for len >= 2^32 - 4: a build with overflow
\* checks panics on the addition; without them the sum wraps to 0..3, the
\* length test passes and the slice buf[4..(4 + len)] panics, its end being
\* before its start.
DecodeString(buf, usize32, checks) ==
    IF Len(buf) >= 4
    THEN LET hi == buf[1] * 256 + buf[2]
             lo == buf[3] * 256 + buf[4]
         IN  IF usize32 /\ hi = Limb - 1 /\ lo >= Limb - 4
             THEN IF checks
                  THEN Panicked("attempt to add with overflow")
                  ELSE Panicked("slice index starts after its end")
             ELSE IF hi = 0 /\ Len(buf) >= 4 + lo
             THEN LET str_vec == SubSeq(buf, 5, 4 + lo)
                  IN  IF FromUtf8(str_vec)
                      THEN Ok(TypeStr(str_vec))
                      ELSE Err("string not UTF-8")
             ELSE Err("string data too short")
    ELSE Err("string data too short")

\* ToRedisArgs for Type: write_redis_args, little-endian integers.
WriteRedisArgsLe(v) ==
    CASE v.t = "Nil" -> <<>>
      [] v.t = "Bool" -> IF v.v = <<1>> THEN <<TagT>> ELSE <<TagF>>
      [] v.t = "Int" -> <<TagI>> \o ToLeBytes(v.v)
      [] v.t = "Flt" -> <<TagD>> \o ToBeBytes(v.v)
      [] v.t = "Str" -> <<TagS>> \o U32ToBeBytes(Len(v.v)) \o v.v

\* ToRedisArgs for Type: write_redis_args
WriteRedisArgs(v) ==
    CASE v.t = "Nil" -> <<>>
      [] v.t = "Bool" -> IF v.v = <<1>> THEN <<TagT>> ELSE <<TagF>>
      [] v.t = "Int" -> <<TagI>> \o ToBeBytes(v.v)
      [] v.t = "Flt" -> <<TagD>> \o ToBeBytes(v.v)
      [] v.t = "Str" -> <<TagS>> \o U32ToBeBytes(Len(v.v)) \o v.v

\* redis::Value: Nil, Int, Data, Bulk, Status, Okay.
RedisValue(k, data) == [k |-> k, data |-> data]
Data(buf) == RedisValue("Data", buf)
NonData == {"Nil", "Int", "Bulk", "Status", "Okay"}

\* from_redis_value that takes the store's nil for Type::Nil.
FromRedisValueNil(v, usize32, checks) ==
    IF v.k \in {"Data", "Nil"}
    THEN LET buf == v.data IN
         IF Len(buf) > 0
         THEN CASE buf[1] = TagF -> Ok(TypeBool(FALSE))
                [] buf[1] = TagT -> Ok(TypeBool(TRUE))
                [] buf[1] = TagI -> DecodeInteger(Tail(buf))
                [] buf[1] = TagD -> DecodeFloat(Tail(buf))
                [] buf[1] = TagS -> DecodeString(Tail(buf), usize32, checks)
                [] OTHER -> Err("unknown tag")
         ELSE Ok(TypeNil)
    ELSE Err("bad redis::Value")

\* FromRedisValue for Type: from_redis_value
FromRedisValue(v, usize32, checks) ==
    IF v.k = "Data"
    THEN LET buf == v.data IN
         IF Len(buf) > 0
         THEN CASE buf[1] = TagF -> Ok(TypeBool(FALSE))
                [] buf[1] = TagT -> Ok(TypeBool(TRUE))
                [] buf[1] = TagI -> DecodeInteger(Tail(buf))
                [] buf[1] = TagD -> DecodeFloat(Tail(buf))
                [] buf[1] = TagS -> DecodeString(Tail(buf), usize32, checks)
                [] OTHER -> Err("unknown tag")
         ELSE Ok(TypeNil)
    ELSE Err("bad redis::Value")


\* The values handed to the encoder.
IntNums == {k * m : k \in (-IntSpan) .. IntSpan, m \in {1, 255, 65537}}

I64Samples ==
    {I64(n) : n \in IntNums}
        \cup {I64Max, I64Min, <<291, 17767, 35243, 52719>>}

\* 0.0, -0.0, 1.0, -1.0, two NaNs, the infinities, a denormal.
F64Samples ==
    {<<0, 0, 0, 0>>, <<32768, 0, 0, 0>>, <<16368, 0, 0, 0>>,
     <<49136, 0, 0, 0>>, <<32760, 0, 0, 0>>, <<65520, 0, 0, 1>>,
     <<32752, 0, 0, 0>>, <<65520, 0, 0, 0>>, <<0, 0, 0, 1>>}

\* 'A' and the two bytes of U+00E9.
StrBytes == {65, 195, 169}

StrSamples ==
    {s \in UNION {[1 .. n -> StrBytes] : n \in 0 .. MaxStr} : FromUtf8(s)}

Values ==
    {TypeNil} \cup {TypeBool(b) : b \in BOOLEAN}
        \cup {TypeInt(w) : w \in I64Samples}
        \cup {TypeFlt(w) : w \in F64Samples}
        \cup {TypeStr(s) : s \in StrSamples}

\* The values handed to the decoder: every kind that is not a buffer, the
\* empty buffer, and a first byte (the five tags, 'X', 0) followed by up to
\* MaxPayload bytes.
TagBytes == {TagF, TagT, TagI, TagD, TagS, 88, 0}
PayloadBytes == {0, 1, 255}

Inputs ==
    {RedisValue(k, <<>>) : k \in NonData \cup {"Data"}}
        \cup {Data(<<tg>> \o p) :
                tg \in TagBytes,
                p \in UNION {[1 .. n -> PayloadBytes] : n \in 0 .. MaxPayload}}

NoRes == Err("")

\* One call of the codec: the argument is drawn first, the target's pointer
\* width with it, then the function is applied.
InitCodec ==
    /\ pc = "codec"
    /\ state = Unknown
    /\ frame = NoFrame
    /\ chan = <<>>
    /\ stateHist = <<>>
    /\ dutyHist = <<>>
    /\ inflowHist = <<>>
    /\ serviceHist = <<>>
    /\ overflow_checks \in BOOLEAN
    /\ remaining = 0
    /\ sess = NoSess
    /\ hist = NoHist
    /\ \E usize32 \in BOOLEAN :
         \/ \E v \in Values :
              call = [op |-> "value", value |-> v, input |-> Data(<<>>),
                      usize32 |-> usize32, res |-> NoRes]
         \/ \E input \in Inputs :
              call = [op |-> "input", value |-> TypeNil, input |-> input,
                      usize32 |-> usize32, res |-> NoRes]

\* value.write_redis_args(out)
EncodeValue ==
    /\ pc = "codec"
    /\ call.op = "value"
    /\ call' = [call EXCEPT !.op = "encode",
                            !.input = Data(WriteRedisArgs(call.value))]
    /\ UNCHANGED <<pc, state, frame, chan, store, overflow_checks, remaining,
                   sess, hist>>

\* Type::from_redis_value of the buffer just encoded
DecodeEncoded ==
    /\ pc = "codec"
    /\ call.op = "encode"
    /\ call' = [call EXCEPT !.op = "roundtrip",
                            !.res = FromRedisValue(call.input, call.usize32,
                                                   overflow_checks)]
    /\ UNCHANGED <<pc, state, frame, chan, store, overflow_checks, remaining,
                   sess, hist>>

\* Type::from_redis_value(input)
DecodeValue ==
    /\ pc = "codec"
    /\ call.op = "input"
    /\ call' = [call EXCEPT !.op = "decode",
                            !.res = FromRedisValue(call.input, call.usize32,
                                                   overflow_checks)]
    /\ UNCHANGED <<pc, state, frame, chan, store, overflow_checks, remaining,
                   sess, hist>>

NextCodec == EncodeValue \/ DecodeEncoded \/ DecodeValue

SpecCodec == InitCodec /\ [][NextCodec]_vars


(* ===================== properties of the codec ========================= *)

TooShort(buf) ==
    /\ Len(buf) > 0
    /\ \/ buf[1] \in {TagI, TagD} /\ Len(buf) - 1 < 8
       \/ buf[1] = TagS /\ Len(buf) - 1 < 4
       \/ /\ buf[1] = TagS
          /\ Len(buf) - 1 >= 4
          /\ \/ buf[2] * 256 + buf[3] > 0
             \/ buf[4] * 256 + buf[5] > Len(buf) - 5

\* C13: decoding a buffer whose payload is too short returns a length error
\* and reads nothing past the end of the buffer: an 'I' or 'D' tag followed
\* by fewer than 8 bytes, an 'S' tag followed by fewer than 4 length bytes,
\* an 'S' tag whose declared length exceeds the bytes after the prefix.
C13_ShortIsLengthError ==
    (call.op = "decode" /\ call.input.k = "Data" /\ TooShort(call.input.data))
    => /\ ~call.res.panic
       /\ ~call.res.ok
       /\ call.res.err = (IF call.input.data[1] = TagI
                          THEN "integer data too short"
                          ELSE IF call.input.data[1] = TagD
                          THEN "floating point data too short"
                          ELSE "string data too short")

\* C14: decoding never coerces an ill-formed input: a store value that is
\* not a byte buffer fails with a type error, a non-empty buffer whose first
\* byte is none of 'F', 'T', 'I', 'D', 'S' fails with an unknown-tag error,
\* and only the empty buffer decodes to Nil.
C14_NoCoercion ==
    call.op = "decode"
    => /\ call.input.k \in NonData => call.res = Err("bad redis::Value")
       /\ (/\ call.input.k = "Data"
           /\ Len(call.input.data) > 0
           /\ call.input.data[1] \notin {TagF, TagT, TagI, TagD, TagS})
          => call.res = Err("unknown tag")
       /\ call.res = Ok(TypeNil) <=> call.input = Data(<<>>)

C14_Witness ==
    /\ call.op = "decode"
    /\ call.input.k = "Data"
    /\ Len(call.input.data) > 1
    /\ call.res = Err("unknown tag")

\* Byte i (0 the least significant) of the two's complement of n.
RECURSIVE TwosByte(_, _)
TwosByte(n, i) ==
    IF i = 0
    THEN (IF n >= 0 THEN n % 256 ELSE 255 - ((-n - 1) % 256))
    ELSE TwosByte(IF n >= 0 THEN n \div 256 ELSE -(((-n - 1) \div 256) + 1),
                  i - 1)

\* The encodings of test_int_encoder.
IntVectors ==
    {<<I64(0), <<73, 0, 0, 0, 0, 0, 0, 0, 0>>>>,
     <<I64(1), <<73, 0, 0, 0, 0, 0, 0, 0, 1>>>>,
     <<I64(-1), <<73, 255, 255, 255, 255, 255, 255, 255, 255>>>>,
     <<I64Max, <<73, 127, 255, 255, 255, 255, 255, 255, 255>>>>,
     <<I64Min, <<73, 128, 0, 0, 0, 0, 0, 0, 0>>>>,
     <<<<291, 17767, 35243, 52719>>,
       <<73, 1, 35, 69, 103, 137, 171, 205, 239>>>>}

\* C15: Int(v) encodes to exactly 9 bytes, the tag 'I' followed by the
\* 8-byte big-endian two's complement of v, and decoding those 9 bytes
\* yields Int(v); so at the boundaries 0, 1, -1, i64::MAX and i64::MIN.
C15_IntNineBytes ==
    (call.op \in {"encode", "roundtrip"} /\ call.value.t = "Int")
    => LET buf == call.input.data IN
       /\ Len(buf) = 9
       /\ buf[1] = TagI
       /\ \A i \in 2 .. 9 : buf[i] \in 0 .. 255
       /\ \A n \in IntNums :
            call.value.v = I64(n)
            => \A i \in 2 .. 9 : buf[i] = TwosByte(n, 9 - i)
       /\ \A vec \in IntVectors : call.value.v = vec[1] => buf = vec[2]
       /\ call.op = "roundtrip" => call.res = Ok(TypeInt(call.value.v))

C15_Witness ==
    /\ call.op = "roundtrip"
    /\ call.value = TypeInt(I64Min)
    /\ call.res = Ok(TypeInt(I64Min))


(* ====================== sessions of the monitor ======================== *)

\* the positions of monitor inside the read loop of a session
InSession == {"read", "on_send", "on_xadd", "off_send", "off_pipe"}

\* the state machine after the frames i.. of a session, started in s; a
\* panic of to_off ends the run with the state as it was
RECURSIVE StateAfter(_, _, _)
StateAfter(frames, i, s) ==
    IF i > Len(frames) THEN s
    ELSE LET f == frames[i] IN
         IF f.on
         THEN StateAfter(frames, i + 1, ToOn(s, f.stamp).state)
         ELSE LET r == ToOff(s, f.stamp, overflow_checks) IN
              IF r.panic THEN s ELSE StateAfter(frames, i + 1, r.state)

LastValue(h) == IF h = <<>> THEN "none" ELSE h[Len(h)].value

\* C16 as stated: the first ON frame of a session followed by an OFF frame
\* never produces a DutyResult or a telemetry batch.
C16_FirstCycleNeverReported ==
    LET f == sess.frames
        n == Len(f)
    IN  (/\ n >= 2
         /\ f[n - 1].on
         /\ ~f[n].on
         /\ \A j \in 1 .. n - 2 : ~f[j].on)
        => /\ pc \notin {"off_send", "off_pipe"}
           /\ \A k \in 1 .. Len(sess.cmds) : sess.cmds[k].kind # "batch"

\* C16, amended: the first OFF frame of a session only synchronises the
\* state machine.  A DutyResult is returned, and a batch submitted, only
\* for an OFF frame that has an earlier OFF frame in its session, so an ON
\* frame followed by an OFF frame with no OFF frame before them is not
\* reported; the session OFF, ON, OFF reports its ON/OFF pair.
C16_FirstOffOnlySyncs ==
    LET f == sess.frames
        n == Len(f)
        offs == {j \in 1 .. n : ~f[j].on}
        batches == {k \in 1 .. Len(sess.cmds) : sess.cmds[k].kind = "batch"}
    IN  /\ pc \in {"off_send", "off_pipe"}
             => \E j \in offs : j < n /\ ~f[n].on
        /\ Cardinality(batches) < Cardinality(offs) \/ offs = {}
        /\ (/\ n = 3
            /\ ~f[1].on /\ f[2].on /\ ~f[3].on
            /\ pc # "panicked")
           => \/ pc \in {"off_send", "off_pipe"}
              \/ /\ sess.cmds # <<>>
                 /\ sess.cmds[Len(sess.cmds)].kind = "batch"
                 /\ sess.cmds[Len(sess.cmds)].id = f[3].stamp

C16_Witness ==
    /\ pc = "read"
    /\ Len(sess.frames) = 2
    /\ sess.frames[1].on
    /\ ~sess.frames[2].on
    /\ state = Off(sess.frames[2].stamp)
    /\ sess.cmds = <<>>
    /\ Gained = <<<<>>, <<>>, <<>>>>

\* C17: every session starts with the state machine in Unknown and records
\* service="up" before any frame is processed; the state is Unknown again
\* before the next connection attempt, so the state, and with it every
\* DutyResult, is computed from the frames of the current session alone.
C17_SessionStartsUnknown ==
    /\ pc \in {"connect", "up_svc", "down_svc", "down_alert"}
         => state = Unknown
    /\ pc \in InSession \cup {"panicked"}
         => /\ LastValue(serviceHist) = "up"
            /\ state = StateAfter(sess.frames, 1, Unknown)
    /\ pc \in {"off_send", "off_pipe"}
         => LET f == sess.frames
                prior == StateAfter(Front(f), 1, Unknown)
                r == ToOff(prior, f[Len(f)].stamp, overflow_checks)
            IN  /\ prior.tag = "On"
                /\ \E i, j \in 1 .. Len(f) - 1 :
                     /\ i < j
                     /\ ~f[i].on /\ f[j].on
                     /\ prior = On(f[i].stamp, f[j].stamp)
                /\ frame.duty = r.duty
                /\ frame.in_flow = r.in_flow

C17_Witness ==
    /\ hist.connects = 2
    /\ pc = "read"
    /\ Len(stateHist) = 1
    /\ stateHist[1].value = "on"
    /\ Len(sess.frames) = 1
    /\ ~sess.frames[1].on
    /\ state = Off(sess.frames[1].stamp)
    /\ dutyHist = <<>>

\* the monitor just after to_off has returned a result for the last frame of
\* a session OFF, ON, OFF, with longer cycles than Stamps allows
MaxCycle == 10

InitOffArm ==
    /\ pc = "off_send"
    /\ overflow_checks \in BOOLEAN
    /\ chan \in {<<>>, <<"sump_on">>}
    /\ dutyHist = <<>>
    /\ inflowHist = <<>>
    /\ serviceHist = <<Rec("*", "up")>>
    /\ remaining = 0
    /\ hist = [NoHist EXCEPT !.frames = 3, !.connects = 1]
    /\ call = NoCall
    /\ \E off_time, on_time, stamp \in 0 .. MaxCycle :
         LET r == ToOff(On(off_time, on_time), stamp, overflow_checks) IN
           /\ ~r.panic
           /\ state = r.state
           /\ frame = [stamp |-> stamp, duty |-> r.duty,
                       in_flow |-> r.in_flow]
           /\ stateHist = <<Rec(on_time, "on")>>
           /\ sess = [frames |-> <<[stamp |-> off_time, on |-> FALSE],
                                   [stamp |-> on_time, on |-> TRUE],
                                   [stamp |-> stamp, on |-> FALSE]>>,
                      cmds |-> <<OnCmd(on_time)>>,
                      base |-> <<0, 0, 0>>]

NextOffArm == OffSend \/ OffPipe \/ HueRecv

SpecOffArm == InitOffArm /\ [][NextOffArm]_vars

LampProgs == {"lights_off", "yellow", "red"}

\* C18: the program pushed on a completed OFF transition is determined by
\* the duty: duty < 10 gives the lights-off program, 10 <= duty < 30 the
\* yellow program, duty >= 30 the red program; exactly one such program is
\* pushed per completed OFF transition, and none at any other step.
C18_LampByDuty ==
    [][/\ (pc = "off_send" /\ pc' # "off_send")
          => /\ pc' = "off_pipe"
             /\ \E prog \in LampProgs :
                  /\ chan' = Append(chan, prog)
                  /\ Lt(frame.duty, 10) => prog = "lights_off"
                  /\ (/\ frame.duty.kind = "num"
                      /\ frame.duty.val >= 10
                      /\ frame.duty.val < 30) => prog = "yellow"
                  /\ (\/ frame.duty.kind = "inf"
                      \/ frame.duty.kind = "num" /\ frame.duty.val >= 30)
                     => prog = "red"
       /\ (Len(chan') > Len(chan) /\ chan'[Len(chan')] \in LampProgs)
          => pc = "off_send" /\ pc' = "off_pipe"]_vars

C18_Witness ==
    /\ pc = "off_pipe"
    /\ frame.duty.kind = "num"
    /\ frame.duty.val \in 10 .. 29
    /\ chan # <<>>
    /\ chan[Len(chan)] = "yellow"

\* C19: the service.hist log is well formed: each "crash" record comes
\* right after an "up" record, and each "up" record is the last record or
\* is followed at once by a "crash" record.
C19_ServiceLogWellFormed ==
    \A i \in 1 .. Len(serviceHist) :
        /\ serviceHist[i].value = "crash"
             => i > 1 /\ serviceHist[i - 1].value = "up"
        /\ (serviceHist[i].value = "up" /\ i < Len(serviceHist))
             => serviceHist[i + 1].value = "crash"

C19_Witness ==
    /\ Len(serviceHist) = 3
    /\ serviceHist[1].value = "up"
    /\ serviceHist[2].value = "crash"
    /\ serviceHist[3].value \in {"up", "down"}

\* C20: the records a session appends to state.hist alternate on, off, on,
\* off, ..., beginning with "on".
C20_StateLogAlternates ==
    LET g == Since(stateHist, sess.base[1]) IN
      \A i \in 1 .. Len(g) :
          g[i].value = (IF i % 2 = 1 THEN "on" ELSE "off")

C20_Witness ==
    LET g == Since(stateHist, sess.base[1]) IN
      /\ hist.connects >= 1
      /\ Len(g) = 2
      /\ g[1].value = "on"
      /\ g[2].value = "off"
      /\ Len(sess.frames) >= 3


(* ==================== ordered timestamps, no underflow ================= *)

\* the timestamps of the frames never decrease
Monotone(frames) ==
    \A i \in 1 .. Len(frames) - 1 : frames[i].stamp <= frames[i + 1].stamp

\* C21: if the frame timestamps of a session are non-decreasing, every On
\* state reached has off_time <= on_time, and every to_off call made in an
\* On state receives stamp >= on_time >= off_time, so neither subtraction
\* (stamp - on_time, stamp - off_time) underflows: to_off does not panic and
\* the duty is computed from the true differences.
C21_NoUnderflow ==
    Monotone(sess.frames)
    => LET f == sess.frames
           n == Len(f)
       IN  /\ pc # "panicked"
           /\ (pc \in InSession /\ state.tag = "On")
                => /\ state.off_time <= state.on_time
                   /\ n > 0 => state.on_time <= f[n].stamp
           /\ pc \in {"off_send", "off_pipe"}
                => LET prior == StateAfter(Front(f), 1, Unknown)
                       stamp == f[n].stamp
                   IN  /\ prior.tag = "On"
                       /\ prior.off_time <= prior.on_time
                       /\ prior.on_time <= stamp
                       /\ ~Underflow(stamp, prior.on_time)
                       /\ ~Underflow(stamp, prior.off_time)
                       /\ frame.duty = Duty(stamp - prior.on_time,
                                            stamp - prior.off_time)

C21_Witness ==
    /\ pc = "off_send"
    /\ overflow_checks
    /\ Monotone(sess.frames)
    /\ Len(sess.frames) = 3
    /\ sess.frames[1].stamp < sess.frames[2].stamp
    /\ sess.frames[2].stamp < sess.frames[3].stamp
    /\ frame.duty = Num(50)

====
